---- MODULE Spec2Model ----
(***************************************************************************)
(* ColECM 2D simulation routine (src/src/sim_tools_2D.py): the force field *)
(* evaluator calc_energy_forces, the Langevin velocity-Verlet integrator   *)
(* velocity_verlet_alg and its SPMD variant velocity_verlet_alg_mpi.       *)
(*                                                                         *)
(* Arithmetic.  The program computes in floating point; the model computes *)
(* on an integer grid.  Positions, velocities, forces and box lengths are  *)
(* whole quanta, lengths obtained from a square root are held in 1 / LS    *)
(* quanta, energies in half quanta (so that the program's factors 0.5 and  *)
(* / 2 are exact).  A quotient is rounded once, toward zero, which keeps   *)
(* the sign symmetry of floating point.  A value that floating point would *)
(* make NaN is carried as a record with nan = TRUE.                        *)
(***************************************************************************)
EXTENDS Integers, Sequences, FiniteSets, TLC

(***************************************************************************)
(* Bounds of the model                                                     *)
(***************************************************************************)
NProc == 2          \* number of MPI processes (comm size)
MaxStep == 2        \* integrator steps the driver loop makes
LS == 4             \* sub-quantum resolution of a length taken by np.sqrt

(***************************************************************************)
(* Inputs: the parameter bundle and the time step                          *)
(***************************************************************************)
param == [n_dim |-> 2, n_bead |-> 3, mass |-> 64,
          vdw_sigma |-> 1, vdw_epsilon |-> 64, rc |-> 2,
          bond_r0 |-> 1, bond_k0 |-> 64, angle_k0 |-> 4,
          sigma |-> 4, gamma |-> 1, lambda_p |-> 1, P_0 |-> 1]
dt == 2

Beads == 0 .. (param.n_bead - 1)
Dims == 0 .. (param.n_dim - 1)
Ranks == 0 .. (NProc - 1)

(***************************************************************************)
(* Grid arithmetic                                                         *)
(***************************************************************************)
Abs(x) == IF x < 0 THEN -x ELSE x

\* np.array(a / b, dtype=int): the quotient truncated toward zero
IntCast(a, b) ==
    IF (a >= 0) = (b > 0) THEN Abs(a) \div Abs(b) ELSE -(Abs(a) \div Abs(b))

\* a / b on the grid
Quot(a, b) == IntCast(a, b)

RECURSIVE isqrt(_)
isqrt(n) ==
    IF n < 2 THEN n
    ELSE LET s == 2 * isqrt(n \div 4)
         IN  IF (s + 1) * (s + 1) <= n THEN s + 1 ELSE s

\* np.sqrt of a squared length, in 1 / LS quanta
sqrt(r2) == isqrt(r2 * LS * LS)

RECURSIVE SumSeq(_)
SumSeq(s) == IF s = <<>> THEN 0 ELSE Head(s) + SumSeq(Tail(s))

RECURSIVE SumTo(_, _)
\* sum of f[0] .. f[n]
SumTo(f, n) == IF n < 0 THEN 0 ELSE f[n] + SumTo(f, n - 1)

\* sum of f over the beads, the dimensions, the ranks
SumBeads(f) == SumTo(f, param.n_bead - 1)
SumDims(f) == SumTo(f, param.n_dim - 1)
SumRanks(f) == SumTo(f, NProc - 1)

Range(s) == {s[k] : k \in 1 .. Len(s)}

\* the function f, every value of it computed once: an array held in memory
Arr(f) == f @@ <<>>

\* the last position of x in sequence s, 0 when absent (numpy's a[idx] += v
\* keeps, for an index that occurs twice, only the last occurrence's v)
LastPos(s, x) ==
    LET K == {k \in 1 .. Len(s) : s[k] = x}
    IN  IF K = {} THEN 0 ELSE CHOOSE k \in K : \A l \in K : l <= k

Zero1 == Arr([b \in Beads |-> Arr([d \in Dims |-> 0])])
Zero2 == Arr([a \in Dims |-> Arr([b \in Dims |-> 0])])
NaN1 == [nan |-> TRUE, a |-> Zero1]
NaN2 == [nan |-> TRUE, a |-> Zero2]
Num(x) == [nan |-> FALSE, a |-> x]

(***************************************************************************)
(* utilities (imported as ut; the module is not among the source files)    *)
(***************************************************************************)
\* minimum image of a displacement d in a box of length L: d less the nearest
\* integer multiple of L
MinImage(d, L) == d - L * ((2 * d + L) \div (2 * L))

\* ut.get_distances_mpi: displacement of every indexed pair, zero elsewhere
get_distances_mpi(pos, pos_indices, cell_dim) ==
    LET indexed == Range(pos_indices)
    IN  Arr([d \in Dims |-> Arr([i \in Beads |-> Arr([j \in Beads |->
            IF <<i, j>> \in indexed
            THEN MinImage(pos[i][d] - pos[j][d], cell_dim[d])
            ELSE 0])])])

\* ut.check_cutoff: 1 inside the cutoff, 0 outside
check_cutoff(r2, rc2) == IF r2 < rc2 THEN 1 ELSE 0

\* ut.pot_vdw: 4 eps ((s^2 / r2)^6 - (s^2 / r2)^3)
pot_vdw(r2, sigma, epsilon) ==
    LET s2 == sigma * sigma
    IN  Quot(4 * epsilon * (s2^6 - s2^3 * r2^3), r2^6)

\* ut.force_vdw: -24 eps (2 (s^2 / r2)^6 - (s^2 / r2)^3)
force_vdw(r2, sigma, epsilon) ==
    LET s2 == sigma * sigma
    IN  Quot(-24 * epsilon * (2 * s2^6 - s2^3 * r2^3), r2^6)

\* ut.pot_harmonic: 0.5 k0 (r - r0)^2, r in 1 / LS quanta
pot_harmonic(r, r0, k0) == Quot(k0 * (r - r0 * LS) * (r - r0 * LS), 2 * LS * LS)

\* ut.force_harmonic: -k0 (r - r0), r and the result in 1 / LS quanta
force_harmonic(r, r0, k0) == -k0 * (r - r0 * LS)

\* ut.kin_energy: 0.5 m sum(v^2), in half quanta
kin_energy(vel, mass, n_dim) ==
    mass * SumBeads(Arr([b \in Beads |-> SumDims(Arr([d \in Dims |-> vel[b][d] * vel[b][d]]))]))

(***************************************************************************)
(* cos_sin_theta                                                           *)
(***************************************************************************)
\* vector: the 2 n displacement vectors of n angles, r_vector: their lengths in
\* 1 / LS quanta.  Per angle a (vectors 2a-1 and 2a): r_prod in 1 / LS^2
\* quanta, and cos_the, sin_the as the numerators of the quotients by r_prod.
cos_sin_theta(vector, r_vector) ==
    LET n_vector == Len(vector)
        n == n_vector \div 2
        r_prod == Arr([a \in 1 .. n |-> r_vector[2 * a - 1] * r_vector[2 * a]])
        dot_prod == Arr([a \in 1 .. n |->
            SumDims(Arr([d \in Dims |-> vector[2 * a - 1][d] * vector[2 * a][d]]))])
        cross_prod == Arr([a \in 1 .. n |->
            vector[2 * a - 1][0] * vector[2 * a][1] - vector[2 * a - 1][1] * vector[2 * a][0]])
    IN  [cos_the |-> Arr([a \in 1 .. n |-> dot_prod[a] * LS * LS]),
         sin_the |-> Arr([a \in 1 .. n |-> cross_prod[a] * LS * LS]),
         r_prod |-> r_prod]

(***************************************************************************)
(* calc_energy_forces                                                      *)
(***************************************************************************)
\* the shifted non-bonded potential of one pair inside the cutoff
nonbond_pot(coeff, r2) ==
    coeff * pot_vdw(r2, param.vdw_sigma, param.vdw_epsilon)
        - pot_vdw(param.rc * param.rc, param.vdw_sigma, param.vdw_epsilon)

\* the shifted non-bonded force of one pair inside the cutoff
nonbond_frc(coeff, r2) ==
    coeff * force_vdw(r2, param.vdw_sigma, param.vdw_epsilon)
        - force_vdw(param.rc * param.rc, param.vdw_sigma, param.vdw_epsilon)

\* the pairs the non-bonded term is computed for: inside the cutoff, at a
\* distance that is not zero
non_zero(pair_r2) ==
    {q \in Beads \X Beads :
        pair_r2[q[1]][q[2]] * check_cutoff(pair_r2[q[1]][q[2]], param.rc * param.rc) # 0}

\* whether the bonded block (bond lengths, and the bond angles inside it) runs
bonded_block(n_bond) == n_bond > 0

\* whether the bond angle block adds its terms: inside the bonded block, and
\* not left by the IndexError that empty angle index arrays raise
angle_block(n_bond, n_angle) == bonded_block(n_bond) /\ n_angle > 0

calc_energy_forces(pos, cell_dim, pos_indices, bond_indices, frc_indices, angle_indices, angle_bond_indices, vdw_coeff, virial_indicies) ==
    LET n_bond == Len(bond_indices)
        pair_dist == get_distances_mpi(pos, pos_indices, cell_dim)
        pair_r2 == Arr([i \in Beads |-> Arr([j \in Beads |->
            SumDims(Arr([d \in Dims |-> pair_dist[d][i][j] * pair_dist[d][i][j]]))])])
        \* Bond Lengths
        bond_r == Arr([k \in 1 .. n_bond |-> sqrt(pair_r2[bond_indices[k][1]][bond_indices[k][2]])])
        bond_pot == Arr([k \in 1 .. n_bond |-> pot_harmonic(bond_r[k], param.bond_r0, param.bond_k0)])
        bond_frc == Arr([k \in 1 .. n_bond |-> force_harmonic(bond_r[k], param.bond_r0, param.bond_k0)])
        temp_frc == Arr([d \in Dims |-> Arr([i \in Beads |-> Arr([j \in Beads |->
            LET k == LastPos(frc_indices, <<i, j>>)
            IN  IF k = 0 \/ k > n_bond THEN 0
                ELSE Quot(bond_frc[k] * pair_dist[d][bond_indices[k][1]][bond_indices[k][2]],
                          bond_r[k])])])])
        f_bond == Arr([i \in Beads |-> Arr([d \in Dims |->
            SumBeads(Arr([j \in Beads |-> temp_frc[d][i][j]]))])])
        \* Bond Angles
        n_vector == Len(angle_bond_indices[1])
        n_angle == n_vector \div 2
        angle_dist == Arr([v \in 1 .. n_vector |-> Arr([d \in Dims |->
            LET raw == pos[angle_bond_indices[1][v]][d] - pos[angle_bond_indices[2][v]][d]
            IN  raw - cell_dim[d] * IntCast(2 * raw, cell_dim[d])])])
        angle_r2 == Arr([v \in 1 .. n_vector |->
            SumDims(Arr([d \in Dims |-> angle_dist[v][d] * angle_dist[v][d]]))])
        r_vector == Arr([v \in 1 .. n_vector |-> sqrt(angle_r2[v])])
        cst == cos_sin_theta(angle_dist, r_vector)
        angle_pot == Arr([a \in 1 .. n_angle |->
            Quot(2 * param.angle_k0 * (cst.cos_the[a] + cst.r_prod[a]), cst.r_prod[a])])
        \* k0 (rij / |rij||rjk| - sin(theta) rjk / |rjk|^2) for vector v, other vector w
        frc_angle_ij == Arr([v \in 1 .. n_vector |-> Arr([d \in Dims |->
            LET a == (v + 1) \div 2
                w == IF v = 2 * a THEN v - 1 ELSE v + 1
            IN  Quot(param.angle_k0 * (angle_dist[v][d] * LS * LS * r_vector[w] * r_vector[w]
                                         - cst.sin_the[a] * angle_dist[w][d] * LS * LS),
                     cst.r_prod[a] * r_vector[w] * r_vector[w])])])
        frc_angle_k == Arr([a \in 1 .. n_angle |-> Arr([d \in Dims |->
            -(frc_angle_ij[2 * a - 1][d] + frc_angle_ij[2 * a][d])])])
        column(c) == Arr([a \in 1 .. Len(angle_indices) |-> angle_indices[a][c]])
        f_angle == Arr([b \in Beads |-> Arr([d \in Dims |->
            LET a1 == LastPos(column(1), b)
                a2 == LastPos(column(2), b)
                a3 == LastPos(column(3), b)
            IN  (IF a1 = 0 THEN 0 ELSE frc_angle_ij[2 * a1 - 1][d])
              + (IF a2 = 0 THEN 0 ELSE frc_angle_k[a2][d])
              + (IF a3 = 0 THEN 0 ELSE frc_angle_ij[2 * a3][d])])])
        \* non-bonded
        nz == non_zero(pair_r2)
        nb_frc == Arr([i \in Beads |-> Arr([j \in Beads |->
            IF <<i, j>> \in nz THEN nonbond_frc(vdw_coeff[i][j], pair_r2[i][j]) ELSE 0])])
        temp_xy == Arr([d \in Dims |-> Arr([i \in Beads |-> Arr([j \in Beads |->
            IF <<i, j>> \in nz
            THEN Quot(nb_frc[i][j] * pair_dist[d][i][j], pair_r2[i][j])
            ELSE 0])])])
        virial == Arr([a \in Dims |-> Arr([b \in Dims |->
            SumSeq(Arr([k \in 1 .. Len(virial_indicies) |->
                LET i == virial_indicies[k][1]
                    j == virial_indicies[k][2]
                IN  temp_xy[a][i][j] * pair_dist[a][i][j] * pair_dist[b][i][j]]))])])
        f_nonbond == Arr([j \in Beads |-> Arr([d \in Dims |->
            SumBeads(Arr([i \in Beads |-> temp_xy[d][i][j]]))])])
        \* what is undefined: a bond or an angle arm of length zero
        bond_nan == bonded_block(n_bond) /\ \E k \in 1 .. n_bond : bond_r[k] = 0
        angle_nan == angle_block(n_bond, n_angle) /\ \E a \in 1 .. n_angle : cst.r_prod[a] = 0
        pot == (IF bonded_block(n_bond) THEN SumSeq(bond_pot) ELSE 0)
             + (IF angle_block(n_bond, n_angle) /\ ~angle_nan THEN SumSeq(angle_pot) ELSE 0)
             + SumBeads(Arr([i \in Beads |-> SumBeads(Arr([j \in Beads |->
                    IF <<i, j>> \in nz THEN nonbond_pot(vdw_coeff[i][j], pair_r2[i][j]) ELSE 0]))]))
        frc_beads == Arr([b \in Beads |-> Arr([d \in Dims |->
              (IF bonded_block(n_bond) THEN f_bond[b][d] ELSE 0)
            + (IF angle_block(n_bond, n_angle) THEN f_angle[b][d] ELSE 0)
            + f_nonbond[b][d]])])
    IN  [pot_energy |-> [none |-> FALSE, nan |-> angle_nan, a |-> IF angle_nan THEN 0 ELSE pot],
         frc_beads |-> IF bond_nan \/ angle_nan THEN NaN1 ELSE Num(frc_beads),
         virial_tensor |-> Num(virial)]

\* calc_energy_forces on values that may be undefined: positions or a box that
\* are not numbers, or a box of length zero (every displacement is divided by
\* the box length), leave no result a number
calc_or_nan(pos, cell_dim, pos_indices, bond_indices, frc_indices, angle_indices, angle_bond_indices, vdw_coeff, virial_indicies) ==
    IF pos.nan \/ cell_dim.nan \/ (\E d \in Dims : cell_dim.a[d] = 0)
    THEN [pot_energy |-> [none |-> FALSE, nan |-> TRUE, a |-> 0],
          frc_beads |-> NaN1, virial_tensor |-> NaN2]
    ELSE calc_energy_forces(pos.a, cell_dim.a, pos_indices, bond_indices, frc_indices,
                            angle_indices, angle_bond_indices, vdw_coeff, virial_indicies)

(***************************************************************************)
(* The integrator's kinematic update (velocity_verlet_alg lines 307-323,   *)
(* repeated verbatim in velocity_verlet_alg_mpi lines 414-430)             *)
(***************************************************************************)
RECURSIVE root3_from(_, _, _)
root3_from(n, d, m) == IF m * m * m * d >= n THEN m ELSE root3_from(n, d, m + 1)

\* (n / d) ** (1. / 3) for d > 0: NaN for a negative base (numpy's power of a
\* negative float64 to a fractional exponent), zero for zero, and for a
\* positive base the root rounded up to a whole number, so that, as in floating
\* point, the root of a positive base is positive
cube_root(n, d) ==
    IF n < 0 THEN [nan |-> TRUE, a |-> 0]
    ELSE [nan |-> FALSE, a |-> root3_from(n, d, 0)]

\* mu = (1 + lambda_p (P_t - P_0)) ** (1. / 3), with
\* P_t = 1 / (prod(cell_dim) n_dim) (kin_energy - 0.5 sum(diag(virial_tensor)))
mu(vel, virial_tensor, cell_dim) ==
    LET kin == kin_energy(vel, param.mass, param.n_dim)
        trace == SumDims(Arr([d \in Dims |-> virial_tensor[d][d]]))
        D == 2 * cell_dim[0] * cell_dim[1] * param.n_dim
    IN  cube_root(D + param.lambda_p * (kin - trace) - param.lambda_p * param.P_0 * D, D)

\* the factor the box and the positions are scaled by: mu under "if NPT:", and
\* no scaling (a factor of one) otherwise
\* (scale_always: the same were the scaling not under "if NPT:")
scale_always(NPT, vel, virial_tensor, cell_dim) == mu(vel, virial_tensor, cell_dim)
scale(NPT, vel, virial_tensor, cell_dim) ==
    IF NPT THEN mu(vel, virial_tensor, cell_dim) ELSE [nan |-> FALSE, a |-> 1]

\* pos += cell * (1 - np.array((pos + cell) / cell, dtype=int)), one component
wrap(p, c) == p + c * (1 - IntCast(p + c, c))

\* vel += frc / mass * dt ... the periodic wrap, on values that are numbers
kinematic_num(pos, vel, frc, virial_tensor, cell_dim, beta, NPT) ==
    LET vel1 == Arr([b \in Beads |-> Arr([d \in Dims |-> vel[b][d] + Quot(frc[b][d] * dt, param.mass)])])
        m == scale(NPT, vel1, virial_tensor, cell_dim)
        d_vel == Arr([b \in Beads |-> Arr([d \in Dims |->
            param.sigma * beta[b][d] - param.gamma * vel1[b][d]])])
        pos1 == Arr([b \in Beads |-> Arr([d \in Dims |->
            pos[b][d] + Quot((2 * vel1[b][d] + d_vel[b][d]) * dt, 2)])])
        vel2 == Arr([b \in Beads |-> Arr([d \in Dims |-> vel1[b][d] + d_vel[b][d]])])
        pos2 == Arr([b \in Beads |-> Arr([d \in Dims |-> m.a * pos1[b][d]])])
        cell2 == Arr([d \in Dims |-> m.a * cell_dim[d]])
        \* a box of length zero: (pos + cell) / cell is 0 / 0 and cell * (...) is 0
        pos3 == Arr([b \in Beads |-> Arr([d \in Dims |->
            IF cell2[d] = 0 THEN pos2[b][d] ELSE wrap(pos2[b][d], cell2[d])])])
    IN  IF m.nan
        THEN [pos |-> NaN1, vel |-> Num(vel2), cell_dim |-> [nan |-> TRUE, a |-> cell_dim]]
        ELSE [pos |-> Num(pos3), vel |-> Num(vel2), cell_dim |-> Num(cell2)]

\* the same on values that may be undefined
kinematic(pos, vel, frc, virial_tensor, cell_dim, beta, NPT) ==
    LET npt_nan == NPT /\ (vel.nan \/ frc.nan \/ virial_tensor.nan \/ cell_dim.nan
                            \/ \E d \in Dims : cell_dim.a[d] = 0)
        vel_nan == vel.nan \/ frc.nan
        k == kinematic_num(pos.a, vel.a, frc.a, virial_tensor.a, cell_dim.a, beta, NPT /\ ~npt_nan)
    IN  IF pos.nan \/ vel_nan \/ cell_dim.nan \/ npt_nan
        THEN [pos |-> NaN1,
              vel |-> IF vel_nan THEN NaN1 ELSE k.vel,
              cell_dim |-> IF npt_nan THEN [nan |-> TRUE, a |-> cell_dim.a] ELSE k.cell_dim]
        ELSE k

(***************************************************************************)
(* The run's inputs: topology of a chain of three beads 0 - 1 - 2, the     *)
(* slices of its index lists, the noise                                    *)
(***************************************************************************)
\* every ordered pair of distinct beads, the bonded pairs first
all_pairs == << <<0, 1>>, <<1, 0>>, <<1, 2>>, <<2, 1>>, <<0, 2>>, <<2, 0>> >>
bonded == {<<0, 1>>, <<1, 0>>, <<1, 2>>, <<2, 1>>}
all_angles == << <<0, 1, 2>> >>

\* zero for bonded (and self) pairs, one for the others
vdw_coeff == Arr([i \in Beads |-> Arr([j \in Beads |-> IF i # j /\ <<i, j>> \notin bonded THEN 1 ELSE 0])])

\* the virial mask: the pairs i < j, or every pair
virial_masks == {<< <<0, 1>>, <<0, 2>>, <<1, 2>> >>, all_pairs}

RECURSIVE SelectSeq2(_, _)
\* the subsequence of s whose elements are in S
SelectSeq2(s, S) ==
    IF s = <<>> THEN <<>>
    ELSE (IF Head(s) \in S THEN <<Head(s)>> ELSE <<>>) \o SelectSeq2(Tail(s), S)

\* a split of the pair list: the first cut pairs to rank 0, the others dealt in
\* turn to the other ranks; of the angle list: all to one rank
pair_owner(cut, k) == IF k <= cut \/ NProc = 1 THEN 0 ELSE 1 + ((k - cut - 1) % (NProc - 1))
pos_indices(in, rank) ==
    SelectSeq2(all_pairs, {all_pairs[k] : k \in {l \in 1 .. Len(all_pairs) : pair_owner(in.cut, l) = rank}})
bond_indices(in, rank) == SelectSeq2(pos_indices(in, rank), bonded)
frc_indices(in, rank) == bond_indices(in, rank)
angle_indices(in, rank) == IF in.angle_owner = rank THEN all_angles ELSE <<>>
angle_bond_indices(in, rank) ==
    LET ai == angle_indices(in, rank)
    IN  << Arr([v \in 1 .. 2 * Len(ai) |-> ai[(v + 1) \div 2][IF v % 2 = 1 THEN 1 ELSE 3]]),
           Arr([v \in 1 .. 2 * Len(ai) |-> ai[(v + 1) \div 2][2]]) >>

\* the whole lists, as one process holds them
whole == [cut |-> Len(all_pairs), angle_owner |-> 0]

Bead3(p0, p1, p2) ==
    Arr([b \in Beads |-> Arr([d \in Dims |-> (IF b = 0 THEN p0 ELSE IF b = 1 THEN p1 ELSE p2)[d + 1]])])

\* starting configurations in a box of 6 x 6
init_pos == {Bead3(<<1, 1>>, <<2, 2>>, <<3, 1>>),
             Bead3(<<1, 1>>, <<2, 1>>, <<2, 2>>),
             Bead3(<<1, 1>>, <<3, 1>>, <<5, 2>>)}
init_cell == Arr([d \in Dims |-> 6])

\* np.random.normal(0, 1, (n_bead, n_dim)): the draws the model makes
BetaMax == 1
draws == {Arr([b \in Beads |-> Arr([d \in Dims |-> v * (1 + b) * (IF d = 0 THEN 1 ELSE -1)])]) :
              v \in (-BetaMax) .. BetaMax}

(***************************************************************************)
(* State                                                                   *)
(***************************************************************************)
VARIABLES
    input,          \* NPT flag, the split of the index lists, the mask, the ranks that raise
    pc,             \* per process: where it is in the step
    step,           \* per process: steps completed
    beta,           \* per process: its local beta
    pos, vel, frc, cell_dim, virial_tensor, pot_energy,   \* per process: its locals
    sent,           \* per process: what it has handed to gather and allreduce, by step parity
    bcast_buf,      \* the broadcast of beta in flight
    colls           \* per process: the collectives it has called in its current step

vars == <<input, pc, step, beta, pos, vel, frc, cell_dim, virial_tensor, pot_energy, sent, bcast_buf, colls>>

None == [none |-> TRUE, nan |-> FALSE, a |-> 0]

\* the local force field evaluation of a process over its slices
calc_slice(in, rank, p, c) ==
    calc_or_nan(p, c, pos_indices(in, rank), bond_indices(in, rank), frc_indices(in, rank),
                angle_indices(in, rank), angle_bond_indices(in, rank), vdw_coeff, in.mask)

\* MPI.SUM over the contributions of every rank
sum_pot(c) ==
    [none |-> FALSE, nan |-> \E q \in Ranks : c[q].nan,
     a |-> IF \E q \in Ranks : c[q].nan THEN 0 ELSE SumRanks(Arr([q \in Ranks |-> c[q].a]))]
sum_frc(c) ==
    IF \E q \in Ranks : c[q].nan THEN NaN1
    ELSE Num(Arr([b \in Beads |-> Arr([d \in Dims |-> SumRanks(Arr([q \in Ranks |-> c[q].a[b][d]]))])]))
sum_virial(c) ==
    IF \E q \in Ranks : c[q].nan THEN NaN2
    ELSE Num(Arr([i \in Dims |-> Arr([j \in Dims |-> SumRanks(Arr([q \in Ranks |-> c[q].a[i][j]]))])]))

(***************************************************************************)
(* velocity_verlet_alg_mpi, one process per rank                           *)
(***************************************************************************)
\* the order of the places of a step
place(p) ==
    CASE p = "failed" -> 0
      [] p = "bcast" -> 1
      [] p = "update" -> 2
      [] p = "gather" -> 3
      [] p = "allreduce_frc" -> 4
      [] p = "allreduce_virial" -> 5
      [] p = "done" -> 6

\* process q has called the collective at place p of step s
arrived(q, p, s) == pc[q] # "failed" /\ (step[q] > s \/ (step[q] = s /\ place(pc[q]) >= place(p)))
\* process q has returned from its call at place p of step s
passed(q, p, s) == pc[q] # "failed" /\ (step[q] > s \/ (step[q] = s /\ place(pc[q]) > place(p)))

\* the processes whose call the blocking collective that process r is in waits
\* for: the root's send for a broadcast, every other process's send for the
\* root of a gather, every process's call for an allreduce
awaited(r) ==
    CASE pc[r] = "bcast" /\ r # 0 -> IF bcast_buf.step = step[r] THEN {} ELSE {0}
      [] pc[r] = "gather" /\ r = 0 -> {q \in Ranks \ {r} : ~passed(q, "gather", step[r])}
      [] pc[r] \in {"allreduce_frc", "allreduce_virial"} -> {q \in Ranks : ~arrived(q, pc[r], step[r])}
      [] OTHER -> {}

\* where a process goes after its local force field evaluation
\* (after_calc_if_bonds: the same were the gather, like the bonded block, under
\* "if n_bond > 0:")
after_calc_if_bonds(in, rank) ==
    IF Len(bond_indices(in, rank)) > 0 THEN "gather" ELSE "allreduce_frc"
after_calc(in, rank) == "gather"

\* what comm.bcast(beta, root=0) returns on a process
\* (bcast_own: the same were the value the process passed in kept)
bcast_own(buf, own, rank) == own
bcast(buf, own, rank) == buf
\* what np.sum(comm.gather(pot_energy, root=0)) is on a process: the sum on the
\* root, np.sum(None), which is None, on the others
gather_sum(c, rank) == IF rank = 0 THEN sum_pot(c) ELSE None
\* what comm.allreduce(x, op=MPI.SUM) returns on a process
allreduce_frc(c, rank) == sum_frc(c)
allreduce_virial(c, rank) == sum_virial(c)

\* the state a run starts in: the replicated state, with the forces and the
\* virial of the starting configuration reduced over the processes
Init ==
    \E NPT \in BOOLEAN, cut \in 0 .. Len(all_pairs), ao \in Ranks, mask \in virial_masks,
       rs \in {{}} \cup {{r} : r \in Ranks}, p0 \in init_pos :
        LET in == [NPT |-> NPT, cut |-> cut, angle_owner |-> ao, mask |-> mask, raises |-> rs]
            c0 == Arr([q \in Ranks |-> calc_slice(in, q, Num(p0), Num(init_cell))])
        IN  /\ input = in
            /\ pc = Arr([r \in Ranks |-> "bcast"])
            /\ step = Arr([r \in Ranks |-> 0])
            /\ beta = Arr([r \in Ranks |-> Zero1])
            /\ pos = Arr([r \in Ranks |-> Num(p0)])
            /\ vel = Arr([r \in Ranks |-> Num(Zero1)])
            /\ cell_dim = Arr([r \in Ranks |-> Num(init_cell)])
            /\ frc = Arr([r \in Ranks |-> sum_frc(Arr([q \in Ranks |-> c0[q].frc_beads]))])
            /\ virial_tensor = Arr([r \in Ranks |-> sum_virial(Arr([q \in Ranks |-> c0[q].virial_tensor]))])
            /\ pot_energy = Arr([r \in Ranks |-> gather_sum(Arr([q \in Ranks |-> c0[q].pot_energy]), r)])
            /\ sent = Arr([r \in Ranks |-> Arr([s \in 0 .. 1 |-> c0[r]])])
            /\ bcast_buf = [step |-> -1, a |-> Zero1]
            /\ colls = Arr([r \in Ranks |-> <<>>])

\* rank 0: beta = np.random.normal(...); beta = comm.bcast(beta, root=0)
DrawBeta(r) ==
    /\ r = 0 /\ pc[r] = "bcast"
    /\ \E b \in draws :
        /\ bcast_buf' = [step |-> step[r], a |-> b]
        /\ beta' = [beta EXCEPT ![r] = bcast(b, b, r)]
    /\ pc' = [pc EXCEPT ![r] = "update"]
    /\ colls' = [colls EXCEPT ![r] = <<"bcast">>]
    /\ UNCHANGED <<input, step, pos, vel, frc, cell_dim, virial_tensor, pot_energy, sent>>

\* the other ranks: beta = None; beta = comm.bcast(beta, root=0), which blocks
\* until the root has sent
RecvBeta(r) ==
    /\ r # 0 /\ pc[r] = "bcast"
    /\ awaited(r) = {}
    /\ beta' = [beta EXCEPT ![r] = bcast(bcast_buf.a, Zero1, r)]
    /\ pc' = [pc EXCEPT ![r] = "update"]
    /\ colls' = [colls EXCEPT ![r] = <<"bcast">>]
    /\ UNCHANGED <<input, step, pos, vel, frc, cell_dim, virial_tensor, pot_energy, sent, bcast_buf>>

\* vel += frc / mass * dt ... the periodic wrap, then the local
\* calc_energy_forces over the slices of the process
Update(r) ==
    /\ pc[r] = "update" /\ r \notin input.raises
    /\ \E k \in {kinematic(pos[r], vel[r], frc[r], virial_tensor[r], cell_dim[r], beta[r], input.NPT)} :
       \E c \in {calc_slice(input, r, k.pos, k.cell_dim)} :
           /\ pos' = [pos EXCEPT ![r] = k.pos]
           /\ vel' = [vel EXCEPT ![r] = k.vel]
           /\ cell_dim' = [cell_dim EXCEPT ![r] = k.cell_dim]
           /\ pot_energy' = [pot_energy EXCEPT ![r] = c.pot_energy]
           /\ frc' = [frc EXCEPT ![r] = c.frc_beads]
           /\ virial_tensor' = [virial_tensor EXCEPT ![r] = c.virial_tensor]
           /\ sent' = [sent EXCEPT ![r][step[r] % 2] = c]
    /\ pc' = [pc EXCEPT ![r] = after_calc(input, r)]
    /\ UNCHANGED <<input, step, beta, bcast_buf, colls>>

\* the same, with calc_energy_forces raising: the exception leaves
\* velocity_verlet_alg_mpi, which catches nothing, and ends the process
Raise(r) ==
    /\ pc[r] = "update" /\ r \in input.raises
    /\ \E k \in {kinematic(pos[r], vel[r], frc[r], virial_tensor[r], cell_dim[r], beta[r], input.NPT)} :
           /\ pos' = [pos EXCEPT ![r] = k.pos]
           /\ vel' = [vel EXCEPT ![r] = k.vel]
           /\ cell_dim' = [cell_dim EXCEPT ![r] = k.cell_dim]
    /\ pc' = [pc EXCEPT ![r] = "failed"]
    /\ UNCHANGED <<input, step, beta, frc, virial_tensor, pot_energy, sent, bcast_buf, colls>>

\* pot_energy = np.sum(comm.gather(pot_energy, root=0)): the root blocks until
\* every other rank has sent, the others send
Gather(r) ==
    /\ pc[r] = "gather"
    /\ awaited(r) = {}
    /\ pot_energy' = [pot_energy EXCEPT ![r] = gather_sum(Arr([q \in Ranks |-> sent[q][step[r] % 2].pot_energy]), r)]
    /\ pc' = [pc EXCEPT ![r] = "allreduce_frc"]
    /\ colls' = [colls EXCEPT ![r] = Append(@, "gather")]
    /\ UNCHANGED <<input, step, beta, pos, vel, frc, cell_dim, virial_tensor, sent, bcast_buf>>

\* frc = comm.allreduce(frc, op=MPI.SUM): blocks until every rank has called it
AllreduceFrc(r) ==
    /\ pc[r] = "allreduce_frc"
    /\ awaited(r) = {}
    /\ frc' = [frc EXCEPT ![r] = allreduce_frc(Arr([q \in Ranks |-> sent[q][step[r] % 2].frc_beads]), r)]
    /\ pc' = [pc EXCEPT ![r] = "allreduce_virial"]
    /\ colls' = [colls EXCEPT ![r] = Append(@, "allreduce")]
    /\ UNCHANGED <<input, step, beta, pos, vel, cell_dim, virial_tensor, pot_energy, sent, bcast_buf>>

\* virial_tensor = comm.allreduce(virial_tensor, op=MPI.SUM); return: the
\* driver loop calls again with what was returned, MaxStep times in all
AllreduceVirial(r) ==
    /\ pc[r] = "allreduce_virial"
    /\ awaited(r) = {}
    /\ virial_tensor' = [virial_tensor EXCEPT ![r] =
            allreduce_virial(Arr([q \in Ranks |-> sent[q][step[r] % 2].virial_tensor]), r)]
    /\ step' = [step EXCEPT ![r] = @ + 1]
    /\ pc' = [pc EXCEPT ![r] = IF step[r] + 1 < MaxStep THEN "bcast" ELSE "done"]
    /\ colls' = [colls EXCEPT ![r] = Append(@, "allreduce")]
    /\ UNCHANGED <<input, beta, pos, vel, frc, cell_dim, pot_energy, sent, bcast_buf>>

Next ==
    \E r \in Ranks :
        \/ DrawBeta(r)
        \/ RecvBeta(r)
        \/ Update(r)
        \/ Raise(r)
        \/ Gather(r)
        \/ AllreduceFrc(r)
        \/ AllreduceVirial(r)

Spec == Init /\ [][Next]_vars

(***************************************************************************)
(* velocity_verlet_alg, the single-process integrator: two calls side by   *)
(* side that start from the same pos, vel, frc and cell_dim, each with a   *)
(* virial_tensor argument of its own, and that are given the same draw of  *)
(* beta.  Of a call c: pc[c] is "call" before and "returned" after it,     *)
(* sent[c] keeps the virial_tensor it was called with.                     *)
(***************************************************************************)
Calls == 0 .. 1

\* the virial_tensor a caller may pass: the one of the starting configuration,
\* zero, or one kept from another configuration
virial_args(own) ==
    {own, Zero2, Arr([i \in Dims |-> Arr([j \in Dims |-> IF i = j THEN -200 ELSE 0])])}

SerialInit ==
    \E NPT \in BOOLEAN, mask \in virial_masks, p0 \in init_pos :
        LET in == [NPT |-> NPT, cut |-> whole.cut, angle_owner |-> whole.angle_owner,
                   mask |-> mask, raises |-> {}]
            c0 == calc_slice(in, 0, Num(p0), Num(init_cell))
        IN  \E va, vb \in virial_args(c0.virial_tensor.a) :
            /\ input = in
            /\ pc = Arr([c \in Calls |-> "call"])
            /\ step = Arr([c \in Calls |-> 0])
            /\ beta = Arr([c \in Calls |-> Zero1])
            /\ pos = Arr([c \in Calls |-> Num(p0)])
            /\ vel = Arr([c \in Calls |-> Num(Zero1)])
            /\ cell_dim = Arr([c \in Calls |-> Num(init_cell)])
            /\ frc = Arr([c \in Calls |-> c0.frc_beads])
            /\ virial_tensor = Arr([c \in Calls |-> Num(IF c = 0 THEN va ELSE vb)])
            /\ pot_energy = Arr([c \in Calls |-> c0.pot_energy])
            /\ sent = Arr([c \in Calls |-> Num(IF c = 0 THEN va ELSE vb)])
            /\ bcast_buf = [step |-> -1, a |-> Zero1]
            /\ colls = Arr([c \in Calls |-> <<>>])

\* beta = np.random.normal(...) ... return pos, vel, frc, cell_dim, pot_energy,
\* virial_tensor: the draw is any, but the one the other call made if it has
\* returned
velocity_verlet_alg(c) ==
    /\ pc[c] = "call"
    /\ \E b \in draws :
        /\ \A o \in Calls \ {c} : pc[o] = "returned" => b = beta[o]
        /\ beta' = [beta EXCEPT ![c] = b]
        /\ \E k \in {kinematic(pos[c], vel[c], frc[c], virial_tensor[c], cell_dim[c], b, input.NPT)} :
           \E e \in {calc_slice(input, 0, k.pos, k.cell_dim)} :
               /\ pos' = [pos EXCEPT ![c] = k.pos]
               /\ vel' = [vel EXCEPT ![c] = k.vel]
               /\ cell_dim' = [cell_dim EXCEPT ![c] = k.cell_dim]
               /\ pot_energy' = [pot_energy EXCEPT ![c] = e.pot_energy]
               /\ frc' = [frc EXCEPT ![c] = e.frc_beads]
               /\ virial_tensor' = [virial_tensor EXCEPT ![c] = e.virial_tensor]
    /\ pc' = [pc EXCEPT ![c] = "returned"]
    /\ step' = [step EXCEPT ![c] = @ + 1]
    /\ UNCHANGED <<input, sent, bcast_buf, colls>>

SerialNext == \E c \in Calls : velocity_verlet_alg(c)

SpecSerial == SerialInit /\ [][SerialNext]_vars

(***************************************************************************)
(* Properties of velocity_verlet_alg                                       *)
(***************************************************************************)
BothReturned == \A c \in Calls : pc[c] = "returned"
SameResult ==
    /\ pos[0] = pos[1] /\ vel[0] = vel[1] /\ frc[0] = frc[1] /\ cell_dim[0] = cell_dim[1]
    /\ pot_energy[0] = pot_energy[1] /\ virial_tensor[0] = virial_tensor[1]

\* C8, as stated: two calls from the same pos, vel, frc and cell_dim with the
\* same draw return the same pos, vel, frc, cell_dim, potential energy and
\* virial tensor, whatever virial_tensor each was called with
MarkovUpdate == BothReturned => SameResult

\* C8, amended: they return the same when, with NPT enabled, they were also
\* called with the same virial_tensor; with NPT disabled, whatever
\* virial_tensor each was called with
MarkovGivenVirial ==
    (BothReturned /\ (input.NPT => sent[0] = sent[1])) => SameResult

\* two calls without NPT, called with virial tensors that differ, have returned
\* after a draw that is not zero
ReturnedWithoutNPT ==
    BothReturned /\ ~input.NPT /\ sent[0] # sent[1] /\ beta[0] # Zero1 /\ ~pos[0].nan

(***************************************************************************)
(* Properties of velocity_verlet_alg_mpi                                   *)
(***************************************************************************)
\* process r has returned from a step
returned(r) == step[r] > 0 /\ pc[r] \in {"bcast", "done"}
\* the kinematic updates process r has made
updates(r) == step[r] + (IF pc[r] \in {"gather", "allreduce_frc", "allreduce_virial", "failed"} THEN 1 ELSE 0)
\* what process q handed to the collectives of the step r has returned from
handed(q, r) == sent[q][(step[r] - 1) % 2]
AllDone == \A r \in Ranks : pc[r] = "done"
NoFailure == input.raises = {}
no_bonds(r) == Len(bond_indices(input, r)) = 0
holds_angles(r) == Len(angle_indices(input, r)) > 0
full_sequence == <<"bcast", "gather", "allreduce", "allreduce">>

\* C1: what the root holds at the end of a step, the sum of the per-process
\* results over the slices, is what one calc_energy_forces call over the full
\* lists gives for the same positions and box
PartitionInvariance ==
    returned(0) =>
        LET one == calc_slice([input EXCEPT !.cut = whole.cut, !.angle_owner = whole.angle_owner],
                              0, pos[0], cell_dim[0])
        IN  /\ pot_energy[0] = one.pot_energy
            /\ frc[0] = one.frc_beads
            /\ virial_tensor[0] = one.virial_tensor

\* the process that holds the angle triplet holds non-bonded pairs and no bond
AngleOwnerWithoutBonds ==
    /\ returned(0) /\ NoFailure /\ ~pos[0].nan
    /\ \E r \in Ranks : holds_angles(r) /\ no_bonds(r) /\ Len(pos_indices(input, r)) > 0

\* C2: at the end of a step every process holds the summed potential energy,
\* the summed forces and the summed virial
EveryRankHoldsSums ==
    \A r \in Ranks : returned(r) =>
        /\ pot_energy[r] = sum_pot(Arr([q \in Ranks |-> handed(q, r).pot_energy]))
        /\ frc[r] = sum_frc(Arr([q \in Ranks |-> handed(q, r).frc_beads]))
        /\ virial_tensor[r] = sum_virial(Arr([q \in Ranks |-> handed(q, r).virial_tensor]))

\* C3: every process past the broadcast of a step holds the beta that rank 0
\* drew, and processes that have made the same number of kinematic updates
\* hold the same pos, vel and cell_dim
ReplicatedStateAgrees ==
    /\ \A r \in Ranks : (pc[r] \in {"update", "gather", "allreduce_frc", "allreduce_virial"}
                          /\ bcast_buf.step = step[r]) => beta[r] = bcast_buf.a
    /\ \A r, q \in Ranks : updates(r) = updates(q) =>
            pos[r] = pos[q] /\ vel[r] = vel[q] /\ cell_dim[r] = cell_dim[q]

\* two processes have made their second update with a noise that is not zero
SecondUpdateEverywhere ==
    /\ \A r \in Ranks : step[r] = 1 /\ pc[r] = "gather" /\ beta[r] # Zero1 /\ ~pos[r].nan
    /\ \A r \in Ranks : vel[r].a # Zero1
    /\ \E r \in Ranks : no_bonds(r)

\* C4: after the kinematic update of a step every position component is in
\* [0, cell_dim) of its axis (stated of the positions that are numbers, in a
\* box whose lengths are positive numbers)
PositionsInBox ==
    \A r \in Ranks :
        (updates(r) > 0 /\ ~pos[r].nan /\ ~cell_dim[r].nan /\ \A d \in Dims : cell_dim[r].a[d] > 0) =>
            \A b \in Beads, d \in Dims : 0 <= pos[r].a[b][d] /\ pos[r].a[b][d] < cell_dim[r].a[d]

\* C5: both components of cell_dim are strictly positive (stated of the
\* processes whose velocities are numbers: mu was then computed from a kinetic
\* energy that is a number)
CellDimPositive ==
    \A r \in Ranks : ~vel[r].nan => (~cell_dim[r].nan /\ \A d \in Dims : cell_dim[r].a[d] > 0)

\* C6: the virial tensor a process has from its calc_energy_forces call is
\* symmetric
VirialSymmetric ==
    \A r \in Ranks : pc[r] = "gather" =>
        virial_tensor[r].a[0][1] = virial_tensor[r].a[1][0]

\* C7: no process is in a collective that waits for a process that has failed,
\* a wait that never ends
FailurePropagates ==
    \A r \in Ranks : \A q \in awaited(r) : pc[q] # "failed"

\* C9: a pair of a process's slice that is inside the cutoff and has a
\* vdw_coeff of zero adds nothing to the non-bonded energy and force
ZeroCoeffAddsNothing ==
    \A r \in Ranks : (pc[r] = "gather" /\ ~pos[r].nan /\ ~cell_dim[r].nan) =>
        \A k \in 1 .. Len(pos_indices(input, r)) :
            LET i == pos_indices(input, r)[k][1]
                j == pos_indices(input, r)[k][2]
                r2 == SumDims(Arr([d \in Dims |->
                        MinImage(pos[r].a[i][d] - pos[r].a[j][d], cell_dim[r].a[d]) ^ 2]))
            IN  (vdw_coeff[i][j] = 0 /\ r2 # 0 /\ check_cutoff(r2, param.rc * param.rc) = 1) =>
                    nonbond_pot(vdw_coeff[i][j], r2) = 0 /\ nonbond_frc(vdw_coeff[i][j], r2) = 0

\* C10: every process calls the same collectives in the same order in every
\* step, and when no process fails the run is never stuck: until every
\* process has completed every step, some process is not waiting in a
\* collective (every move takes a process forward, so the run then ends)
SameCollectives ==
    /\ \A r \in Ranks :
            /\ \E n \in 0 .. Len(full_sequence) : colls[r] = SubSeq(full_sequence, 1, n)
            /\ returned(r) => colls[r] = full_sequence
    /\ NoFailure => AllDone \/ \E r \in Ranks : pc[r] # "done" /\ awaited(r) = {}

\* a run without failure, with a process whose bond slice is empty, has ended
DoneWithEmptySlice ==
    AllDone /\ NoFailure /\ (\E r \in Ranks : no_bonds(r)) /\ \A r \in Ranks : colls[r] = full_sequence

====
